---- MODULE Spec2Model ----
(***************************************************************************)
(* A model of flippy (src/flippy.py): the command line entry point main,   *)
(* the constructor FlipbookCreator.__init__ and FlipbookCreator.process    *)
(* with its planner, its pagination loop, its raster drawing and its       *)
(* temporary-file handling.                                                *)
(*                                                                         *)
(* Lengths are integers in tenths of a millimetre.  A length that the code *)
(* derives through the source's aspect ratio (height / clip.height *       *)
(* clip.width) is kept as an exact numerator over the clip height: the     *)
(* "scaled" lengths of the plan are tenths of a millimetre times           *)
(* clip_size.height.  Durations are in hundredths of a second.             *)
(***************************************************************************)
EXTENDS Integers, Sequences, FiniteSets

(***************************************************************************)
(* Bounds of the model.                                                    *)
(***************************************************************************)
\* the largest number of frames a source holds or yields
MaxFrames == 5

(***************************************************************************)
(* Arithmetic helpers: Python's int() truncates towards zero.              *)
(***************************************************************************)
TruncDiv(a, b) == IF a >= 0 THEN a \div b ELSE -((-a) \div b)

CeilDiv(a, b) == (a + b - 1) \div b

(***************************************************************************)
(* Size, Margin and the paper catalogue.                                   *)
(***************************************************************************)
Size(w, h) == [width |-> w, height |-> h]

Margin(top, right, bottom, left) ==
    [top |-> top, right |-> right, bottom |-> bottom, left |-> left]

PAPER_SIZES ==
    [a5     |-> Size(2100, 1480),
     a4     |-> Size(2970, 2100),
     a3     |-> Size(4200, 2970),
     letter |-> Size(2794, 2159),
     legal  |-> Size(3556, 2159)]

PAPER_CHOICES == DOMAIN PAPER_SIZES

\* str.lower() on the paper keys the model passes in
Lower(s) ==
    CASE s = "A5" -> "a5"
      [] s = "A4" -> "a4"
      [] OTHER    -> s

DefaultMargins == Margin(100, 100, 100, 100)

DefaultFps == 10

(***************************************************************************)
(* AnimatedGif over the one image handle self.im.  The handle is modelled  *)
(* by its position, the number of the stored frame it currently shows.     *)
(* Image.seek(ix) moves to frame ix when the file holds one and otherwise  *)
(* raises EOFError with the handle back on the frame it was on.            *)
(***************************************************************************)
Seek(pos, ix, n) ==
    IF ix < n THEN [ok |-> TRUE, pos |-> ix] ELSE [ok |-> FALSE, pos |-> pos]

\* AnimatedGif.__getitem__: index 0 does not seek
GetItem(pos, ix, n) ==
    IF ix # 0 THEN Seek(pos, ix, n) ELSE [ok |-> TRUE, pos |-> pos]

\* one full iteration "for f in AnimatedGif(im)" from index ix: the stored
\* frames the handle showed at each yield, and where the handle ends up
RECURSIVE IterGif(_, _, _, _)
IterGif(pos, ix, n, acc) ==
    LET r == GetItem(pos, ix, n)
    IN  IF r.ok THEN IterGif(r.pos, ix + 1, n, Append(acc, r.pos))
        ELSE [frames |-> acc, pos |-> r.pos]

\* FlipbookCreator.__init__ for a .gif: the counting pass, then two pasting
\* passes onto last_im (the canvas is modelled by the frames pasted on it)
InitGif(n) ==
    LET count == IterGif(0, 0, n, <<>>)
        p0    == IterGif(count.pos, 0, n, <<>>)
        p1    == IterGif(p0.pos, 0, n, <<>>)
    IN  [fps         |-> 0,
         frame_count |-> Len(count.frames),
         impos       |-> p1.pos,
         last_im     |-> p0.frames \o p1.frames]

(***************************************************************************)
(* Video clips.  int(duration * fps) is the reported frame count;          *)
(* Clip.iter_frames yields one frame for every t of                        *)
(* arange(0, duration, 1/fps).  write_videofile writes those frames at the *)
(* target rate, so the transcoded clip lasts frames / fps seconds.         *)
(***************************************************************************)
FrameCount(dur, fps) == TruncDiv(dur * fps, 100)

IterFramesCount(dur, fps) == CeilDiv(dur * fps, 100)

TranscodedDuration(dur, fps) == (IterFramesCount(dur, fps) * 100) \div fps

(***************************************************************************)
(* The planner of process (lines 147-155 and 188-189).                     *)
(***************************************************************************)
\* printable_area, in tenths of a millimetre
PrintableArea(paper, margins) ==
    Size(paper.width - margins.left - margins.right,
         paper.height - margins.top - margins.bottom)

\* frame_mm, scaled by clip_size.height
FrameMM(height, clip_size) ==
    Size(height * clip_size.width, height * clip_size.height)

\* total = Size(offset + frame_mm.width, frame_mm.height), scaled
Total(offset, height, clip_size) ==
    Size(offset * clip_size.height + FrameMM(height, clip_size).width,
         FrameMM(height, clip_size).height)

\* frame = int(frame_mm / 25.4 * dpi), in pixels
FramePx(height, clip_size, dpi) ==
    Size(TruncDiv(FrameMM(height, clip_size).width * dpi, 254 * clip_size.height),
         TruncDiv(FrameMM(height, clip_size).height * dpi, 254 * clip_size.height))

\* the binding offset left out of the cell width
TilesXNoOffset(paper, margins, offset, height, clip_size) ==
    TruncDiv(PrintableArea(paper, margins).width * clip_size.height,
             FrameMM(height, clip_size).width)

\* nx = int(printable_area.width / total.width)
TilesX(paper, margins, offset, height, clip_size) ==
    TruncDiv(PrintableArea(paper, margins).width * clip_size.height,
             Total(offset, height, clip_size).width)

\* ny = int(printable_area.height / total.height)
TilesY(paper, margins, offset, height, clip_size) ==
    TruncDiv(PrintableArea(paper, margins).height * clip_size.height,
             Total(offset, height, clip_size).height)

Planner(paper, margins, offset, height, clip_size, dpi) ==
    LET total == Total(offset, height, clip_size)
        nx    == TilesX(paper, margins, offset, height, clip_size)
        ny    == TilesY(paper, margins, offset, height, clip_size)
        x0    == margins.left * clip_size.height
        y0    == margins.top * clip_size.height
    IN  [nx |-> nx, ny |-> ny, total |-> total,
         frame_mm |-> FrameMM(height, clip_size),
         frame |-> FramePx(height, clip_size, dpi),
         offset |-> offset * clip_size.height,
         x0 |-> x0, y0 |-> y0,
         x1 |-> x0 + nx * total.width, y1 |-> y0 + ny * total.height]

\* the planner's locals before line 147 has run
NoPlan ==
    [nx |-> 0, ny |-> 0, total |-> Size(0, 0), frame_mm |-> Size(0, 0),
     frame |-> Size(0, 0), offset |-> 0, x0 |-> 0, y0 |-> 0, x1 |-> 0, y1 |-> 0]

(***************************************************************************)
(* The pagination step of the frame loop (lines 203 and 211-218): the tile *)
(* counters after one more frame, and whether a page break was made.       *)
(***************************************************************************)
\* the column test one late: a row takes nx + 1 tiles
AdvanceLateWrap(tx, ty, page, nx, ny) ==
    IF tx = nx
    THEN IF ty + 1 = ny
         THEN [tx |-> 0, ty |-> 0, page |-> page + 1, brk |-> TRUE]
         ELSE [tx |-> 0, ty |-> ty + 1, page |-> page, brk |-> FALSE]
    ELSE [tx |-> tx + 1, ty |-> ty, page |-> page, brk |-> FALSE]

\* the row test one late: a page takes ny + 1 rows
AdvanceLateBreak(tx, ty, page, nx, ny) ==
    IF tx + 1 = nx
    THEN IF ty = ny
         THEN [tx |-> 0, ty |-> 0, page |-> page + 1, brk |-> TRUE]
         ELSE [tx |-> 0, ty |-> ty + 1, page |-> page, brk |-> FALSE]
    ELSE [tx |-> tx + 1, ty |-> ty, page |-> page, brk |-> FALSE]

\* the row counter not reset at a page break
AdvanceKeepRow(tx, ty, page, nx, ny) ==
    IF tx + 1 = nx
    THEN IF ty + 1 = ny
         THEN [tx |-> 0, ty |-> ty + 1, page |-> page + 1, brk |-> TRUE]
         ELSE [tx |-> 0, ty |-> ty + 1, page |-> page, brk |-> FALSE]
    ELSE [tx |-> tx + 1, ty |-> ty, page |-> page, brk |-> FALSE]

\* the page counter not incremented at a page break
AdvanceKeepPage(tx, ty, page, nx, ny) ==
    IF tx + 1 = nx
    THEN IF ty + 1 = ny
         THEN [tx |-> 0, ty |-> 0, page |-> page, brk |-> TRUE]
         ELSE [tx |-> 0, ty |-> ty + 1, page |-> page, brk |-> FALSE]
    ELSE [tx |-> tx + 1, ty |-> ty, page |-> page, brk |-> FALSE]

\* a page break at the end of every row
AdvanceBreakEachRow(tx, ty, page, nx, ny) ==
    IF tx + 1 = nx
    THEN [tx |-> 0, ty |-> 0, page |-> page + 1, brk |-> TRUE]
    ELSE [tx |-> tx + 1, ty |-> ty, page |-> page, brk |-> FALSE]

Advance(tx, ty, page, nx, ny) ==
    IF tx + 1 = nx
    THEN IF ty + 1 = ny
         THEN [tx |-> 0, ty |-> 0, page |-> page + 1, brk |-> TRUE]
         ELSE [tx |-> 0, ty |-> ty + 1, page |-> page, brk |-> FALSE]
    ELSE [tx |-> tx + 1, ty |-> ty, page |-> page, brk |-> FALSE]

\* 'tmp-{}-{}-{}.png'.format(page, tx, ty)
TempFileName(page, tx, ty) == <<"tmp", page, tx, ty, "png">>

TmpMp4 == <<"tmp", "mp4">>

\* draw_raster with an offset line after the last grid line too
RasterLinesOffsetAfterLast(p) ==
    LET vline(ix) ==
            LET xx == p.x0 + ix * p.total.width
            IN  IF p.offset > 0
                THEN << <<xx, p.y0, xx, p.y1>>,
                        <<xx + p.offset, p.y0, xx + p.offset, p.y1>> >>
                ELSE << <<xx, p.y0, xx, p.y1>> >>
        hline(iy) ==
            LET yy == p.y0 + iy * p.total.height
            IN  <<p.x0, yy, p.x1, yy>>
        RECURSIVE vs(_), hs(_)
        vs(ix) == IF ix > p.nx THEN <<>> ELSE vline(ix) \o vs(ix + 1)
        hs(iy) == IF iy > p.ny THEN <<>> ELSE <<hline(iy)>> \o hs(iy + 1)
    IN  vs(0) \o hs(0)

\* draw_raster (lines 122-130): the lines, as <<xa, ya, xb, yb>> in scaled
\* lengths, in the order they are drawn
RasterLines(p) ==
    LET vline(ix) ==
            LET xx == p.x0 + ix * p.total.width
            IN  IF p.offset > 0 /\ ix # p.nx
                THEN << <<xx, p.y0, xx, p.y1>>,
                        <<xx + p.offset, p.y0, xx + p.offset, p.y1>> >>
                ELSE << <<xx, p.y0, xx, p.y1>> >>
        hline(iy) ==
            LET yy == p.y0 + iy * p.total.height
            IN  <<p.x0, yy, p.x1, yy>>
        RECURSIVE vs(_), hs(_)
        vs(ix) == IF ix > p.nx THEN <<>> ELSE vline(ix) \o vs(ix + 1)
        hs(iy) == IF iy > p.ny THEN <<>> ELSE <<hline(iy)>> \o hs(iy + 1)
    IN  vs(0) \o hs(0)

\* the transcoded video is not recorded
AppendTmpTilesOnly(tmp, name) == IF name = TmpMp4 THEN tmp ELSE Append(tmp, name)

\* tmp_files.append(name)
AppendTmp(tmp, name) == Append(tmp, name)

(***************************************************************************)
(* State.                                                                  *)
(***************************************************************************)
VARIABLES
    pc,           \* where the run is: "main", "construct", "process", "plan",
                  \* "loop", "output", "cleanup", or an end: "done", "failed",
                  \* "exit_usage", "exit_phena"
    err,          \* the exception that ended the run, "" if none
    source,       \* the input file: kind, stored frames n, native fps, dur, size
    call,         \* the arguments: entry, paper, fps, argfps, phena, margins,
                  \* height, offset, dpi
    clip,         \* self.clip: [open, file, fps, dur]
    self,         \* self.fps, self.frame_count, self.last_im, position of self.im
    tmp_files,    \* the list tmp_files of process
    files,        \* the temporary files that exist on disk
    fslog,        \* the file creations and removals, in order
    plan,         \* the planner's results: nx, ny, total, frame_mm, x0, ...
    loop,         \* the locals of the frame loop: i, page, tx, ty, xy, k
    pdf,          \* the commands given to the FPDF object, in order
    rm            \* how many entries of tmp_files the removal loop has passed

vars == <<pc, err, source, call, clip, self, tmp_files, files, fslog, plan,
          loop, pdf, rm>>

(***************************************************************************)
(* The inputs the model draws from.                                        *)
(***************************************************************************)
ClipSizes == {Size(1, 1), Size(4, 1)}

NativeRates == {10, 25}

\* clip durations whose frames, at either rate, number at most MaxFrames
Durations == {d \in 1..(4 * MaxFrames) : d % 5 = 0}

Sources ==
    {[kind |-> "gif", n |-> n, fps |-> 0, dur |-> 0, size |-> s] :
        n \in 1..MaxFrames, s \in ClipSizes}
    \cup
    {[kind |-> "video", n |-> 0, fps |-> f, dur |-> d, size |-> s] :
        f \in NativeRates, d \in Durations, s \in ClipSizes}

PaperInputs == {"a5", "A5", "bogus"}

Heights == {600, 1000, 1300}

Offsets == {0, 150}

MarginInputs ==
    {Margin(t, 100, 100, l) : t \in {0, 100}, l \in {0, 100}}

\* process as main calls it (lines 268-274): fps and margins are not passed
MainCalls ==
    {[entry |-> "main", paper |-> p, fps |-> DefaultFps, argfps |-> a,
      phena |-> ph, margins |-> DefaultMargins, height |-> h, offset |-> o,
      dpi |-> 200] :
        p \in PaperInputs, a \in NativeRates, ph \in BOOLEAN,
        h \in Heights, o \in Offsets}

\* process called directly
ApiCalls ==
    {[entry |-> "api", paper |-> p, fps |-> f, argfps |-> f,
      phena |-> FALSE, margins |-> m, height |-> h, offset |-> o,
      dpi |-> 150] :
        p \in PaperInputs, f \in NativeRates, m \in MarginInputs,
        h \in Heights, o \in Offsets}

NoClip == [open |-> FALSE, file |-> "", fps |-> 0, dur |-> 0]

NoSelf == [fps |-> 0, frame_count |-> 0, last_im |-> <<>>, impos |-> 0]

NoLoop == [i |-> 0, page |-> 0, tx |-> -1, ty |-> 0, xy |-> <<>>, k |-> 0]

Init ==
    /\ source \in Sources
    /\ call \in MainCalls \cup ApiCalls
    /\ pc = IF call.entry = "main" THEN "main" ELSE "construct"
    /\ err = ""
    /\ clip = NoClip
    /\ self = NoSelf
    /\ tmp_files = <<>>
    /\ files = {}
    /\ fslog = <<>>
    /\ plan = NoPlan
    /\ loop = NoLoop
    /\ pdf = <<>>
    /\ rm = 0

Fail(e) == pc' = "failed" /\ err' = e

\* main without the test of args.phena
ParseArgsNoPhena ==
    /\ pc = "main"
    /\ IF call.paper \notin PAPER_CHOICES
       THEN pc' = "exit_usage" /\ err' = "SystemExit(2)"
       ELSE pc' = "construct" /\ err' = err
    /\ UNCHANGED <<source, call, clip, self, tmp_files, files, fslog, plan,
                   loop, pdf, rm>>

(***************************************************************************)
(* main (lines 248-274): argparse rejects a --paper outside PAPER_CHOICES, *)
(* --phena exits with status 1, otherwise the creator is constructed.      *)
(***************************************************************************)
ParseArgs ==
    /\ pc = "main"
    /\ IF call.paper \notin PAPER_CHOICES
       THEN pc' = "exit_usage" /\ err' = "SystemExit(2)"
       ELSE IF call.phena
            THEN pc' = "exit_phena" /\ err' = "SystemExit(1)"
            ELSE pc' = "construct" /\ err' = err
    /\ UNCHANGED <<source, call, clip, self, tmp_files, files, fslog, plan,
                   loop, pdf, rm>>

(***************************************************************************)
(* FlipbookCreator.__init__ (lines 87-111).                                *)
(***************************************************************************)
Construct ==
    /\ pc = "construct"
    /\ IF source.kind = "gif"
       THEN /\ self' = InitGif(source.n)
            /\ clip' = clip
       ELSE /\ clip' = [open |-> TRUE, file |-> "input",
                        fps |-> source.fps, dur |-> source.dur]
            /\ self' = [self EXCEPT
                          !.fps = source.fps,
                          !.frame_count = FrameCount(source.dur, source.fps)]
    /\ pc' = "process"
    /\ UNCHANGED <<err, source, call, tmp_files, files, fslog, plan, loop,
                   pdf, rm>>

(***************************************************************************)
(* process, lines 132-145: the transcoding step.  A failing               *)
(* write_videofile may or may not leave a partly written tmp.mp4.          *)
(***************************************************************************)
Transcode ==
    /\ pc = "process"
    /\ IF clip.open /\ call.fps # clip.fps
       THEN \/ /\ files' = files \cup {TmpMp4}
               /\ fslog' = Append(fslog, <<"create", TmpMp4>>)
               /\ tmp_files' = AppendTmp(tmp_files, TmpMp4)
               /\ clip' = [open |-> TRUE, file |-> "tmp.mp4", fps |-> call.fps,
                           dur |-> TranscodedDuration(clip.dur, call.fps)]
               /\ self' = [self EXCEPT
                             !.fps = call.fps,
                             !.frame_count =
                                 FrameCount(TranscodedDuration(clip.dur, call.fps),
                                            call.fps)]
               /\ pc' = "plan" /\ err' = err
            \/ /\ \E partial \in BOOLEAN :
                    /\ files' = IF partial THEN files \cup {TmpMp4} ELSE files
                    /\ fslog' = IF partial
                                THEN Append(fslog, <<"create", TmpMp4>>)
                                ELSE fslog
               /\ Fail("write_videofile")
               /\ UNCHANGED <<tmp_files, clip, self>>
       ELSE /\ pc' = "plan"
            /\ UNCHANGED <<err, tmp_files, files, fslog, clip, self>>
    /\ UNCHANGED <<source, call, plan, loop, pdf, rm>>

(***************************************************************************)
(* process, lines 147-189: the paper lookup, the planner, the document    *)
(* set-up with its first page, and the loop's locals.                      *)
(***************************************************************************)
Plan ==
    /\ pc = "plan"
    /\ IF Lower(call.paper) \notin DOMAIN PAPER_SIZES
       THEN /\ Fail("KeyError")
            /\ UNCHANGED <<plan, pdf, loop>>
       ELSE /\ plan' = Planner(PAPER_SIZES[Lower(call.paper)], call.margins,
                               call.offset, call.height, source.size, call.dpi)
            /\ pdf' = <<[op |-> "add_page"]>>
            /\ loop' = NoLoop
            /\ pc' = "loop" /\ err' = err
    /\ UNCHANGED <<source, call, clip, self, tmp_files, files, fslog, rm>>

(***************************************************************************)
(* The frame iterator of line 197: clip.iter_frames() for a video,         *)
(* AnimatedGif(self.im) for a .gif.  ok says whether a k-th frame comes,   *)
(* src which stored frame it shows, pos where the image handle then is.    *)
(***************************************************************************)
NextOf(k) ==
    IF clip.open
    THEN [ok |-> k < IterFramesCount(clip.dur, clip.fps), src |-> k,
          pos |-> self.impos]
    ELSE LET r == GetItem(self.impos, k, source.n)
         IN  [ok |-> r.ok, src |-> r.pos, pos |-> r.pos]

\* the label without pdf.rotate(0) after it
LabelNoRestore(offset, text, mm5, i) ==
    IF offset > 0
    THEN <<[op |-> "rotate", angle |-> 90, x |-> text.x, y |-> text.y],
           [op |-> "text", x |-> text.x, y |-> text.y + mm5, txt |-> i]>>
    ELSE <<>>

\* the rotated frame number of lines 230-233
\* (text is the Point of line 229, mm5 the 5 mm of line 232, scaled)
Label(offset, text, mm5, i) ==
    IF offset > 0
    THEN <<[op |-> "rotate", angle |-> 90, x |-> text.x, y |-> text.y],
           [op |-> "text", x |-> text.x, y |-> text.y + mm5, txt |-> i],
           [op |-> "rotate", angle |-> 0, x |-> 0, y |-> 0]>>
    ELSE <<>>

\* the test of line 236
RasterAtEnd(x, y) == y # 0 /\ x # 0

Raster == [op |-> "raster", lines |-> RasterLines(plan)]

(***************************************************************************)
(* One iteration of the frame loop (lines 197-234).  im.save and          *)
(* pdf.image may fail; a failing im.save may leave a partly written file.  *)
(***************************************************************************)
NextFrame ==
    /\ pc = "loop"
    /\ NextOf(loop.k).ok
    /\ LET f     == NextOf(loop.k)
           adv   == Advance(loop.tx, loop.ty, loop.page, plan.nx, plan.ny)
           im    == IF clip.open THEN <<f.src>> ELSE Append(self.last_im, f.src)
           name  == TempFileName(adv.page, adv.tx, adv.ty)
           x     == plan.x0 + adv.tx * plan.total.width
           y     == plan.y0 + adv.ty * plan.total.height
           text  == [x |-> x,
                     y |-> y + plan.frame_mm.height - 20 * source.size.height]
           pdf1  == IF adv.brk
                    THEN pdf \o <<Raster, [op |-> "add_page"]>>
                    ELSE pdf
           image == [op |-> "image", name |-> name,
                     x |-> x + plan.offset, y |-> y,
                     w |-> plan.frame_mm.width, h |-> plan.frame_mm.height,
                     im |-> im, src |-> f.src, i |-> loop.i,
                     page |-> adv.page, tx |-> adv.tx, ty |-> adv.ty]
           moved == [loop EXCEPT !.k = loop.k + 1, !.tx = adv.tx, !.ty = adv.ty,
                                 !.page = adv.page]
       IN  IF self.frame_count = 0
           THEN /\ Fail("ZeroDivisionError")
                /\ self' = [self EXCEPT !.impos = f.pos]
                /\ loop' = [loop EXCEPT !.k = loop.k + 1]
                /\ UNCHANGED <<tmp_files, files, fslog, pdf>>
           ELSE /\ self' = [self EXCEPT
                              !.impos = f.pos,
                              !.last_im = IF clip.open THEN self.last_im ELSE im]
                /\ \/ /\ \E partial \in BOOLEAN :
                           /\ files' = IF partial THEN files \cup {name} ELSE files
                           /\ fslog' = IF partial
                                       THEN Append(fslog, <<"create", name>>)
                                       ELSE fslog
                      /\ Fail("im.save")
                      /\ loop' = moved
                      /\ pdf' = pdf1
                      /\ UNCHANGED tmp_files
                   \/ /\ files' = files \cup {name}
                      /\ fslog' = Append(fslog, <<"create", name>>)
                      /\ tmp_files' = AppendTmp(tmp_files, name)
                      /\ Fail("pdf.image")
                      /\ loop' = [moved EXCEPT !.xy = <<x, y>>]
                      /\ pdf' = pdf1
                   \/ /\ files' = files \cup {name}
                      /\ fslog' = Append(fslog, <<"create", name>>)
                      /\ tmp_files' = AppendTmp(tmp_files, name)
                      /\ loop' = [moved EXCEPT !.xy = <<x, y>>, !.i = loop.i + 1]
                      /\ pdf' = pdf1 \o <<image>>
                                \o Label(plan.offset, text,
                                         50 * source.size.height, loop.i)
                      /\ UNCHANGED <<pc, err>>
    /\ UNCHANGED <<source, call, clip, plan, rm>>

(***************************************************************************)
(* The end of the frame sequence (lines 197 and 236-237).                  *)
(***************************************************************************)
EndOfStream ==
    /\ pc = "loop"
    /\ ~NextOf(loop.k).ok
    /\ self' = [self EXCEPT !.impos = NextOf(loop.k).pos]
    /\ IF loop.xy = <<>>
       THEN Fail("UnboundLocalError") /\ pdf' = pdf
       ELSE /\ pdf' = IF RasterAtEnd(loop.xy[1], loop.xy[2])
                      THEN Append(pdf, Raster)
                      ELSE pdf
            /\ pc' = "output" /\ err' = err
    /\ UNCHANGED <<source, call, clip, tmp_files, files, fslog, plan, loop, rm>>

(***************************************************************************)
(* pdf.output (line 241).                                                  *)
(***************************************************************************)
Output ==
    /\ pc = "output"
    /\ \/ pdf' = Append(pdf, [op |-> "output"]) /\ pc' = "cleanup" /\ err' = err
       \/ Fail("pdf.output") /\ pdf' = pdf
    /\ UNCHANGED <<source, call, clip, self, tmp_files, files, fslog, plan,
                   loop, rm>>

(***************************************************************************)
(* The removal loop (lines 244-245), one os.remove at a time.              *)
(***************************************************************************)
Remove ==
    /\ pc = "cleanup"
    /\ rm < Len(tmp_files)
    /\ IF tmp_files[rm + 1] \in files
       THEN /\ files' = files \ {tmp_files[rm + 1]}
            /\ fslog' = Append(fslog, <<"remove", tmp_files[rm + 1]>>)
            /\ rm' = rm + 1
            /\ UNCHANGED <<pc, err>>
       ELSE /\ Fail("FileNotFoundError")
            /\ UNCHANGED <<files, fslog, rm>>
    /\ UNCHANGED <<source, call, clip, self, tmp_files, plan, loop, pdf>>

Return ==
    /\ pc = "cleanup"
    /\ rm = Len(tmp_files)
    /\ pc' = "done"
    /\ UNCHANGED <<err, source, call, clip, self, tmp_files, files, fslog, plan,
                   loop, pdf, rm>>

Next ==
    \/ ParseArgs
    \/ Construct
    \/ Transcode
    \/ Plan
    \/ NextFrame
    \/ EndOfStream
    \/ Output
    \/ Remove
    \/ Return

Spec == Init /\ [][Next]_vars

(***************************************************************************)
(* Reading the command log: the image placements, the document page a      *)
(* command falls on, and what a page holds.                                *)
(***************************************************************************)
Cmds(op) == {j \in 1..Len(pdf) : pdf[j].op = op}

\* the document page (0-based) that command j is issued on
DocPage(j) == Cardinality({m \in Cmds("add_page") : m <= j}) - 1

\* how many images were placed before command j
Ordinal(j) == Cardinality({m \in Cmds("image") : m < j})

LastPage == Cardinality(Cmds("add_page")) - 1

ImagesOn(p) == {j \in Cmds("image") : DocPage(j) = p}

RastersOn(p) == {j \in Cmds("raster") : DocPage(j) = p}

PageBreaks == LastPage

PerPage == plan.nx * plan.ny

Tiled == plan.nx >= 1 /\ plan.ny >= 1

(***************************************************************************)
(* C1: with nx >= 1 and ny >= 1, the k-th placed frame carries index k and *)
(* is placed on page k div (nx*ny), row (k mod (nx*ny)) div nx, column     *)
(* k mod nx; its temporary file and its position are those of that tile.   *)
(***************************************************************************)
C1_RowMajorPagination ==
    Tiled =>
        \A j \in Cmds("image") :
            LET k == Ordinal(j)
                c == pdf[j]
            IN  /\ c.i = k
                /\ DocPage(j) = k \div PerPage
                /\ c.page = k \div PerPage
                /\ c.ty = (k % PerPage) \div plan.nx
                /\ c.tx = k % plan.nx
                /\ c.name = TempFileName(c.page, c.tx, c.ty)
                /\ c.x = plan.x0 + c.tx * plan.total.width + plan.offset
                /\ c.y = plan.y0 + c.ty * plan.total.height

\* a completed run over a 2 x 2 grid that went on to a second page
C1_Witness ==
    /\ pc = "done"
    /\ plan.nx = 2 /\ plan.ny = 2
    /\ Cardinality(Cmds("image")) = 5
    /\ LastPage = 1

(***************************************************************************)
(* C2: in a run that placed a frame and reached the end of the frame       *)
(* sequence, every page of the document has exactly one raster, drawn      *)
(* after the page's last image and before the next page is started.        *)
(***************************************************************************)
C2_RasterOncePerPage ==
    (pc \in {"output", "cleanup", "done"} /\ Tiled) =>
        \A p \in 0..LastPage :
            /\ Cardinality(RastersOn(p)) = 1
            /\ \A r \in RastersOn(p) : \A j \in ImagesOn(p) : j < r

(***************************************************************************)
(* C3, as claimed: at the end of a run the number of page breaks equals    *)
(* the number of pages that received nx*ny frames.                         *)
(***************************************************************************)
FullPages == {p \in 0..LastPage : Cardinality(ImagesOn(p)) = PerPage}

C3_BreakPerFullPage ==
    (pc = "done" /\ Tiled) => PageBreaks = Cardinality(FullPages)

(***************************************************************************)
(* C3, amended: a page break is made when a further frame is consumed      *)
(* after the (nx*ny)-th frame of the page: every page but the last holds   *)
(* exactly nx*ny frames, the last at most nx*ny, and a completed run of F  *)
(* frames has made (F-1) div (nx*ny) page breaks.                          *)
(***************************************************************************)
C3_BreakOnNextFrame ==
    (Tiled /\ pdf # <<>>) =>
        /\ \A p \in 0..(LastPage - 1) : Cardinality(ImagesOn(p)) = PerPage
        /\ Cardinality(ImagesOn(LastPage)) <= PerPage
        /\ pc = "done" =>
              PageBreaks = (Cardinality(Cmds("image")) - 1) \div PerPage

\* a completed run whose only page is exactly full: no page break was made
C3_Witness ==
    /\ pc = "done"
    /\ Tiled
    /\ PerPage = 4
    /\ Cardinality(Cmds("image")) = 4
    /\ PageBreaks = 0

(***************************************************************************)
(* C4: once the planner has computed nx = 0 or ny = 0, the run has failed  *)
(* without consuming a frame, laying out a page or writing a tile file.    *)
(***************************************************************************)
Planned == pdf # <<>>

TileFiles == {j \in 1..Len(fslog) : fslog[j][2] # TmpMp4}

C4_ZeroTilesRejected ==
    (Planned /\ (plan.nx = 0 \/ plan.ny = 0)) =>
        /\ pc = "failed"
        /\ loop.k = 0
        /\ TileFiles = {}

(***************************************************************************)
(* C5: when the run has ended by a failure of write_videofile, im.save,    *)
(* pdf.image or pdf.output, no temporary file that the run created and     *)
(* recorded in tmp_files is left on disk.                                  *)
(***************************************************************************)
Recorded == {tmp_files[j] : j \in 1..Len(tmp_files)}

ClaimedFailures == {"write_videofile", "im.save", "pdf.image", "pdf.output"}

C5_CleanupOnFailure ==
    (pc = "failed" /\ err \in ClaimedFailures) => Recorded \cap files = {}

(***************************************************************************)
(* C6: no temporary file is removed before pdf.output has written the      *)
(* document, and after a completed run with nx >= 1 and ny >= 1 every      *)
(* file the run created is recorded in tmp_files, was removed exactly      *)
(* once and is absent.                                                     *)
(***************************************************************************)
Creates == {j \in 1..Len(fslog) : fslog[j][1] = "create"}

Removes == {j \in 1..Len(fslog) : fslog[j][1] = "remove"}

C6_TempFilesRemoved ==
    /\ Removes # {} => (pdf # <<>> /\ pdf[Len(pdf)].op = "output")
    /\ (pc = "done" /\ Tiled) =>
          /\ files = {}
          /\ \A j \in Creates :
                /\ fslog[j][2] \in Recorded
                /\ Cardinality({r \in Removes : fslog[r][2] = fslog[j][2]}) = 1
                /\ \A r \in Removes : fslog[r][2] = fslog[j][2] => j < r

\* a completed run on a transcoded video that also wrote two tile files
C6_Witness ==
    /\ pc = "done"
    /\ Tiled
    /\ TmpMp4 \in Recorded
    /\ Cardinality(Creates) >= 3
    /\ Cardinality(Removes) = Cardinality(Creates)

(***************************************************************************)
(* C7: at the end of a completed run the number of frames placed equals    *)
(* the frame count the source reported.                                    *)
(***************************************************************************)
C7_PlacedEqualsReported ==
    pc = "done" => loop.i = self.frame_count

(***************************************************************************)
(* C8: for an animated-image source, the k-th frame the pagination loop    *)
(* places is the stored frame k of the file.                               *)
(***************************************************************************)
C8_SourceOrder ==
    source.kind = "gif" =>
        \A j \in Cmds("image") : pdf[j].src = Ordinal(j)

(***************************************************************************)
(* C9: for a video run through main, once the transcoding step is passed,  *)
(* the clip was transcoded if and only if --fps differs from the native    *)
(* rate, and a transcoded clip runs at the --fps rate.                     *)
(***************************************************************************)
C9_FpsArgumentIsTarget ==
    (call.entry = "main" /\ source.kind = "video" /\ pc = "plan") =>
        /\ (clip.file = "tmp.mp4") <=> (call.argfps # source.fps)
        /\ clip.file = "tmp.mp4" => clip.fps = call.argfps

(***************************************************************************)
(* C10: with a paper key that is not in the catalogue, no temporary file   *)
(* is ever created and the frame loop is never entered.                    *)
(***************************************************************************)
UnknownPaper == Lower(call.paper) \notin DOMAIN PAPER_SIZES

C10_UnknownPaperRejectedFirst ==
    UnknownPaper =>
        /\ fslog = <<>>
        /\ files = {}
        /\ loop.k = 0
        /\ pc \notin {"loop", "output", "cleanup", "done"}

(***************************************************************************)
(* C11, as claimed: with --phena, whatever the other arguments, a run of   *)
(* main that has left the argument parsing has ended with the              *)
(* not-supported message and status 1.                                     *)
(***************************************************************************)
C11_PhenaAlwaysNotSupported ==
    (call.entry = "main" /\ call.phena /\ pc # "main") =>
        (pc = "exit_phena" /\ err = "SystemExit(1)")

(***************************************************************************)
(* C11, amended: with --phena, main never constructs a FlipbookCreator,    *)
(* opens the source, creates a temporary file or writes the document, and  *)
(* ends with a non-zero status: with the not-supported message and status  *)
(* 1 when argparse accepts the other arguments, with argparse's usage      *)
(* error (status 2) when it rejects one of them.                           *)
(***************************************************************************)
C11_PhenaNoSideEffects ==
    (call.entry = "main" /\ call.phena) =>
        /\ pc \in {"main", "exit_phena", "exit_usage"}
        /\ clip = NoClip /\ self = NoSelf
        /\ tmp_files = <<>> /\ files = {} /\ fslog = <<>> /\ pdf = <<>>
        /\ pc = "exit_phena" =>
              (call.paper \in PAPER_CHOICES /\ err = "SystemExit(1)")
        /\ pc = "exit_usage" =>
              (call.paper \notin PAPER_CHOICES /\ err = "SystemExit(2)")

\* --phena with arguments that argparse accepts: main has exited with 1
C11_Witness ==
    /\ call.entry = "main" /\ call.phena
    /\ call.paper \in PAPER_CHOICES
    /\ pc = "exit_phena"
    /\ err = "SystemExit(1)"

(***************************************************************************)
(* A second set of inputs, for the planner: 16:9 sources at a height of    *)
(* 30 mm on a4 and a5 paper, margins that leave no printable width or      *)
(* height, and an animated image long enough to fill an a4 page.           *)
(***************************************************************************)
\* the frames of the long animated image
ScenarioFrames == 25

GeomSources ==
    {[kind |-> "gif", n |-> n, fps |-> 0, dur |-> 0, size |-> Size(16, 9)] :
        n \in {1, ScenarioFrames}}
    \cup
    {[kind |-> "video", n |-> 0, fps |-> 10, dur |-> 10, size |-> Size(16, 9)],
     [kind |-> "video", n |-> 0, fps |-> 25, dur |-> 5, size |-> Size(16, 9)]}

GeomPapers == {"a4", "a5"}

GeomMargins ==
    {DefaultMargins,
     Margin(100, 1500, 100, 1500),
     Margin(100, 2500, 100, 2500),
     Margin(1100, 100, 1100, 100)}

GeomMainCalls ==
    {[entry |-> "main", paper |-> p, fps |-> DefaultFps, argfps |-> DefaultFps,
      phena |-> ph, margins |-> DefaultMargins, height |-> 300, offset |-> o,
      dpi |-> 200] :
        p \in GeomPapers, ph \in BOOLEAN, o \in Offsets}

GeomApiCalls ==
    {[entry |-> "api", paper |-> p, fps |-> f, argfps |-> f,
      phena |-> FALSE, margins |-> m, height |-> 300, offset |-> o,
      dpi |-> d] :
        p \in GeomPapers, f \in NativeRates, m \in GeomMargins,
        o \in Offsets, d \in {150, 200}}

InitGeom ==
    /\ source \in GeomSources
    /\ call \in GeomMainCalls \cup GeomApiCalls
    /\ pc = IF call.entry = "main" THEN "main" ELSE "construct"
    /\ err = ""
    /\ clip = NoClip
    /\ self = NoSelf
    /\ tmp_files = <<>>
    /\ files = {}
    /\ fslog = <<>>
    /\ plan = NoPlan
    /\ loop = NoLoop
    /\ pdf = <<>>
    /\ rm = 0

SpecGeom == InitGeom /\ [][Next]_vars

(***************************************************************************)
(* C12: for paper a4, margins of 10 mm, height 30 mm, a 16:9 source and    *)
(* offset 15 mm the planner computes a printable area of 277 x 190 mm, a   *)
(* cell of (15 + 30*16/9) x 30 mm, nx = 4 and ny = 6, and a full page      *)
(* holds 24 frames.                                                        *)
(***************************************************************************)
A4Scenario ==
    /\ Planned
    /\ Lower(call.paper) = "a4"
    /\ call.margins = DefaultMargins
    /\ call.height = 300
    /\ call.offset = 150
    /\ source.size = Size(16, 9)

C12_A4Scenario ==
    A4Scenario =>
        /\ PrintableArea(PAPER_SIZES[Lower(call.paper)], call.margins)
              = Size(2770, 1900)
        /\ plan.total.width * 9 = (150 * 9 + 300 * 16) * source.size.height
        /\ plan.total.height = 300 * source.size.height
        /\ plan.nx = 4
        /\ plan.ny = 6
        /\ \A p \in 0..(LastPage - 1) : Cardinality(ImagesOn(p)) = 24

\* the scenario with a full first page and a frame on the second
C12_Witness ==
    /\ A4Scenario
    /\ pc = "done"
    /\ LastPage = 1
    /\ Cardinality(ImagesOn(0)) = 24
    /\ Cardinality(ImagesOn(1)) = 1

(***************************************************************************)
(* C13: with nx >= 1 and ny >= 1, at every image placement the tile        *)
(* counters satisfy 0 <= tx < nx and 0 <= ty < ny, the cell of the tile    *)
(* lies inside the grid rectangle [x0, x1] x [y0, y1], and the image is    *)
(* placed at (x + offset, y).  After a frame the loop's counters are in    *)
(* range and, unless the frame failed, its x, y are those of its tile.     *)
(***************************************************************************)
C13_TileInsideGrid ==
    Tiled =>
        /\ \A j \in Cmds("image") :
              LET c  == pdf[j]
                  cx == plan.x0 + c.tx * plan.total.width
                  cy == plan.y0 + c.ty * plan.total.height
              IN  /\ 0 <= c.tx /\ c.tx < plan.nx
                  /\ 0 <= c.ty /\ c.ty < plan.ny
                  /\ plan.x0 <= cx /\ cx + plan.total.width <= plan.x1
                  /\ plan.y0 <= cy /\ cy + plan.total.height <= plan.y1
                  /\ c.x = cx + plan.offset
                  /\ c.y = cy
                  /\ c.w = plan.frame_mm.width /\ c.h = plan.frame_mm.height
                  /\ c.x + c.w <= cx + plan.total.width
        /\ loop.xy # <<>> =>
              /\ 0 <= loop.tx /\ loop.tx < plan.nx
              /\ 0 <= loop.ty /\ loop.ty < plan.ny
              /\ pc # "failed" =>
                    loop.xy = <<plan.x0 + loop.tx * plan.total.width,
                                plan.y0 + loop.ty * plan.total.height>>

\* the last tile of a page of at least 2 x 2 tiles, and a tile after it
C13_Witness ==
    /\ Tiled /\ plan.nx >= 2 /\ plan.ny >= 2
    /\ \E j \in Cmds("image") :
          /\ pdf[j].tx = plan.nx - 1 /\ pdf[j].ty = plan.ny - 1
          /\ \E m \in Cmds("image") : m > j /\ pdf[m].tx = 0 /\ pdf[m].ty = 0

(***************************************************************************)
(* C14: with nx >= 1 and ny >= 1, no two frames of a run get the same      *)
(* (page, tx, ty), so no temporary file name is used for two frames, no    *)
(* file is written a second time, and tmp_files holds no entry twice.      *)
(***************************************************************************)
C14_TileNamesUnique ==
    Tiled =>
        /\ \A j, m \in Cmds("image") :
              j # m =>
                  /\ <<pdf[j].page, pdf[j].tx, pdf[j].ty>>
                        # <<pdf[m].page, pdf[m].tx, pdf[m].ty>>
                  /\ pdf[j].name # pdf[m].name
        /\ \A a, b \in 1..Len(tmp_files) : a # b => tmp_files[a] # tmp_files[b]
        /\ \A a, b \in Creates : a # b => fslog[a][2] # fslog[b][2]

\* a completed run with the same tile used on two pages
C14_Witness ==
    /\ pc = "done"
    /\ Tiled
    /\ \E j, m \in Cmds("image") :
          /\ pdf[j].tx = pdf[m].tx /\ pdf[j].ty = pdf[m].ty
          /\ pdf[j].page # pdf[m].page

(***************************************************************************)
(* C15: every draw_raster first draws nx+1 vertical lines of full grid     *)
(* height at x0 + k*total.width (k = 0..nx) and, if and only if            *)
(* offset > 0, nx more at x0 + k*total.width + offset (k = 0..nx-1), then  *)
(* ny+1 horizontal lines of full grid width at y0 + k*total.height         *)
(* (k = 0..ny); nothing else.                                              *)
(***************************************************************************)
GridVerticals ==
    {<<plan.x0 + k * plan.total.width, plan.y0,
       plan.x0 + k * plan.total.width, plan.y1>> : k \in 0..plan.nx}

OffsetVerticals ==
    IF plan.offset > 0
    THEN {<<plan.x0 + k * plan.total.width + plan.offset, plan.y0,
            plan.x0 + k * plan.total.width + plan.offset, plan.y1>> :
              k \in 0..(plan.nx - 1)}
    ELSE {}

GridHorizontals ==
    {<<plan.x0, plan.y0 + k * plan.total.height,
       plan.x1, plan.y0 + k * plan.total.height>> : k \in 0..plan.ny}

C15_RasterLines ==
    \A r \in Cmds("raster") :
        LET lines == pdf[r].lines
            nv    == (plan.nx + 1) + (IF plan.offset > 0 THEN plan.nx ELSE 0)
            vpart == 1..nv
            hpart == (nv + 1)..Len(lines)
        IN  /\ Len(lines) = nv + plan.ny + 1
            /\ Cardinality({i \in vpart : lines[i] \in GridVerticals})
                  = plan.nx + 1
            /\ Cardinality(GridVerticals) = plan.nx + 1
            /\ {lines[i] : i \in {v \in vpart : lines[v] \in GridVerticals}}
                  = GridVerticals
            /\ {lines[i] : i \in {v \in vpart : lines[v] \notin GridVerticals}}
                  = OffsetVerticals
            /\ Cardinality({i \in vpart : lines[i] \notin GridVerticals})
                  = (IF plan.offset > 0 THEN plan.nx ELSE 0)
            /\ Cardinality(OffsetVerticals)
                  = (IF plan.offset > 0 THEN plan.nx ELSE 0)
            /\ {lines[i] : i \in hpart} = GridHorizontals
            /\ Cardinality(GridHorizontals) = plan.ny + 1

\* a completed run with a binding offset whose document has two rasters
C15_Witness ==
    /\ pc = "done"
    /\ plan.offset > 0
    /\ plan.nx >= 2
    /\ Cardinality(Cmds("raster")) = 2

(***************************************************************************)
(* C16: with margins that leave no printable width or no printable height  *)
(* (left + right >= paper width or top + bottom >= paper height), process  *)
(* never enters the frame loop, consumes no frame and writes no tile file. *)
(***************************************************************************)
NonPositiveArea ==
    /\ ~UnknownPaper
    /\ \/ PrintableArea(PAPER_SIZES[Lower(call.paper)], call.margins).width <= 0
       \/ PrintableArea(PAPER_SIZES[Lower(call.paper)], call.margins).height <= 0

C16_DegenerateMarginsRejected ==
    NonPositiveArea =>
        /\ pc \notin {"loop", "output", "cleanup", "done"}
        /\ loop.k = 0
        /\ TileFiles = {}

(***************************************************************************)
(* C17: the pixel frame size the planner computes is frame_mm / 25.4 * dpi *)
(* rounded to the nearest integer, componentwise.                          *)
(***************************************************************************)
\* the nearest integer to a / b, for a >= 0 and b > 0
RoundDiv(a, b) == (2 * a + b) \div (2 * b)

C17_FramePxRounded ==
    Planned =>
        plan.frame =
            Size(RoundDiv(plan.frame_mm.width * call.dpi,
                          254 * source.size.height),
                 RoundDiv(plan.frame_mm.height * call.dpi,
                          254 * source.size.height))

(***************************************************************************)
(* C18: for an animated-image source, the image placed for frame k is the  *)
(* canvas that carries the pastes of the stored frames 0..k, in order and  *)
(* each once, and no other paste.                                          *)
(***************************************************************************)
FramesUpTo(k) == [i \in 1..(k + 1) |-> i - 1]

C18_CompositeOfFramesUpToK ==
    source.kind = "gif" =>
        \A j \in Cmds("image") : pdf[j].im = FramesUpTo(Ordinal(j))

(***************************************************************************)
(* C19: a frame label is emitted if and only if offset > 0; then every     *)
(* image is followed by exactly one label, showing that frame's index,     *)
(* under a rotation of 90 degrees about (x, y + frame_mm.height - 2), and  *)
(* the rotation is set back to 0 right after it: every image, raster and   *)
(* page command is issued with rotation 0.                                 *)
(***************************************************************************)
\* the rotation in force when command j is issued
Rotation(j) ==
    LET before == {m \in Cmds("rotate") : m < j}
    IN  IF before = {} THEN 0
        ELSE pdf[CHOOSE m \in before : \A o \in before : o <= m].angle

C19_LabelAndRotation ==
    /\ plan.offset <= 0 => (Cmds("text") = {} /\ Cmds("rotate") = {})
    /\ plan.offset > 0 =>
          /\ Cardinality(Cmds("text")) = Cardinality(Cmds("image"))
          /\ \A j \in Cmds("image") :
                LET tx0 == pdf[j].x - plan.offset
                    ty0 == pdf[j].y + plan.frame_mm.height
                             - 20 * source.size.height
                IN  /\ j + 3 <= Len(pdf)
                    /\ pdf[j + 1].op = "rotate" /\ pdf[j + 1].angle = 90
                    /\ pdf[j + 1].x = tx0 /\ pdf[j + 1].y = ty0
                    /\ pdf[j + 2].op = "text" /\ pdf[j + 2].txt = pdf[j].i
                    /\ pdf[j + 2].txt = Ordinal(j)
                    /\ pdf[j + 2].x = tx0
                    /\ pdf[j + 2].y = ty0 + 50 * source.size.height
                    /\ pdf[j + 3].op = "rotate" /\ pdf[j + 3].angle = 0
    /\ \A j \in 1..Len(pdf) :
          /\ pdf[j].op \in {"image", "raster", "add_page", "output"} =>
                Rotation(j) = 0
          /\ pdf[j].op = "text" => Rotation(j) = 90

\* a completed run with labels: two frames, then the raster of the page
C19_Witness ==
    /\ pc = "done"
    /\ plan.offset > 0
    /\ Cardinality(Cmds("text")) >= 2
    /\ \E r \in Cmds("raster") : \E t \in Cmds("text") : t < r

(***************************************************************************)
(* C20: with nx >= 1 and ny >= 1, once the frame sequence of F >= 1 frames *)
(* is exhausted the document has exactly ceil(F / (nx*ny)) pages and every *)
(* page holds at least one frame: no empty trailing page.                  *)
(***************************************************************************)
C20_PageCount ==
    (pc \in {"output", "cleanup", "done"} /\ Tiled) =>
        /\ Cardinality(Cmds("image")) >= 1
        /\ LastPage + 1 = CeilDiv(Cardinality(Cmds("image")), PerPage)
        /\ \A p \in 0..LastPage : ImagesOn(p) # {}

\* a completed run of two exactly full pages of two frames
C20_Witness ==
    /\ pc = "done"
    /\ Tiled
    /\ PerPage = 2
    /\ Cardinality(Cmds("image")) = 2 * PerPage
    /\ LastPage = 1

====
